---- MODULE Spec2Model ----
(***************************************************************************)
(* Checkpoint manager of the project orchestrator                          *)
(* (skill/scripts/checkpoint.py): create / list / restore of snapshots of  *)
(* the state document, the manifest and its retention policy, the          *)
(* integrity hash, and the files these operations read and write; and the  *)
(* state validator (skill/scripts/validate_state.py): the validation       *)
(* stages, the dependency graph check and auto-repair.                     *)
(*                                                                         *)
(* Spec is the checkpoint manager at work on a project directory;          *)
(* ValidatorSpec is the validation command run, with and without --fix, on *)
(* the state documents of a bounded family.  BackupFaultSpec is Spec on a  *)
(* project whose backups/ cannot be written, ChainSpec is the manager      *)
(* creating three checkpoints, RaceSpec is two creates running side by     *)
(* side, and CommandSpec is both commands on one project directory.        *)
(*                                                                         *)
(* Representation.                                                         *)
(*   - A Python dict whose field order matters (the state document and its *)
(*     session section) is [ord |-> <<keys in insertion order>>,           *)
(*     val |-> [key |-> value]].                                           *)
(*   - A file holding such a dict is the sequence of <<key, value>> lines  *)
(*     that yaml.dump(sort_keys=False) / json.dump write, in order.        *)
(*   - A file is <<>> when absent and <<content>> when present.            *)
(*   - The wall clock `now` counts sub-second ticks; strftime to           *)
(*     "%Y%m%d_%H%M%S" truncates it to whole seconds.  A checkpoint id     *)
(*     "cp_<stamp>" is modelled by the integer second of its stamp, whose  *)
(*     numeric order is the lexical order of the fixed-width string.       *)
(*   - sha256(...)[:16] is modelled as injective on the canonical text it  *)
(*     is applied to: the fingerprint IS the canonical text.               *)
(***************************************************************************)
EXTENDS Integers, Sequences, FiniteSets, TLC

VARIABLES
    now,        \* wall clock, in ticks
    cpdir,      \* the checkpoints/ directory exists
    state,      \* state.yaml
    manifest,   \* checkpoints/manifest.yaml
    files,      \* checkpoints/<id>.yaml : [file name -> checkpoint record]
    backups,    \* backups/state_before_restore_<stamp>.yaml : [stamp -> text]
    altered,    \* checkpoint files changed from outside since they were written
    edits,      \* how often the files were changed from outside the manager
    last,       \* the last invocation of a command and its outcome
    trail,      \* progress through restore(X), create, restore(X)
    hist,       \* manifest entries of every successful create, in order
    bkdir,      \* the backups/ directory can be created and written
    procs       \* create invocations running side by side, each at its step

vars == <<now, cpdir, state, manifest, files, backups, altered, edits, last,
          trail, hist, bkdir, procs>>

\* what an invocation that runs alone leaves as it is
aside == <<bkdir, procs>>

(***************************************************************************)
(* Bounds                                                                  *)
(***************************************************************************)
MaxTime     == 2    \* last clock tick
TicksPerSec == 2    \* clock ticks per wall-clock second
MaxCreates  == 2    \* successful creates per behaviour
MaxKeep     == 1    \* largest keep_last a pre-existing manifest carries
MaxEdits    == 1    \* changes made to the files from outside the manager
MaxTasks    == 2    \* longest task list given to the validator
MaxLater    == 1    \* last clock tick between runs of the validator
MaxChain    == 3    \* successful creates per behaviour of ChainSpec

\* keep_last of the manifest that create_checkpoint builds when none exists
DefaultKeepLast == 10

NoId   == -1        \* None where a checkpoint id is expected
NoNote == -1        \* a session note that is not a restore note

(***************************************************************************)
(* Python dicts and sequences                                              *)
(***************************************************************************)
Dict(ord, val) == [ord |-> ord, val |-> val]

Has(d, k) == k \in DOMAIN d.val

\* d[k] = v : a new key goes last, an existing key keeps its place
DictSet(d, k, v) ==
    [ord |-> IF Has(d, k) THEN d.ord ELSE Append(d.ord, k),
     val |-> [x \in DOMAIN d.val \cup {k} |-> IF x = k THEN v ELSE d.val[x]]]

\* s[:-k] and s[-k:] for k >= 0, as Python evaluates them (-0 is 0)
SliceBeforeLast(s, k) ==
    IF k = 0 THEN <<>>
    ELSE IF k >= Len(s) THEN <<>>
    ELSE SubSeq(s, 1, Len(s) - k)

SliceLast(s, k) ==
    IF k = 0 THEN s
    ELSE IF k >= Len(s) THEN s
    ELSE SubSeq(s, Len(s) - k + 1, Len(s))

\* keys whose value is itself a dict
DictKeys == {"session"}

\* every key, in the order json.dumps(sort_keys=True) puts them
SortedKeys == <<"context_usage", "id", "last_updated", "notes", "phase",
                "project", "session", "tasks">>

(***************************************************************************)
(* Files                                                                   *)
(***************************************************************************)
NoFile == <<>>
File(c) == <<c>>
Exists(f) == f # NoFile
Content(f) == f[1]

DumpFlat(d) == [i \in 1..Len(d.ord) |-> <<d.ord[i], d.val[d.ord[i]]>>]

LoadFlat(text) ==
    [ord |-> [i \in 1..Len(text) |-> text[i][1]],
     val |-> [k \in {text[i][1] : i \in 1..Len(text)} |->
                 text[CHOOSE i \in 1..Len(text) : text[i][1] = k][2]]]

\* yaml.dump(data, sort_keys=False) / json.dump(data): fields in dict order
save_yaml_file(d) ==
    [i \in 1..Len(d.ord) |->
        <<d.ord[i], IF d.ord[i] \in DictKeys
                    THEN DumpFlat(d.val[d.ord[i]])
                    ELSE d.val[d.ord[i]]>>]

\* yaml.safe_load / json.load: a dict in the order of the file
load_yaml_file(text) ==
    [ord |-> [i \in 1..Len(text) |-> text[i][1]],
     val |-> [k \in {text[i][1] : i \in 1..Len(text)} |->
                 LET v == text[CHOOSE i \in 1..Len(text) : text[i][1] = k][2]
                 IN  IF k \in DictKeys THEN LoadFlat(v) ELSE v]]

(***************************************************************************)
(* Ids and fingerprints                                                    *)
(***************************************************************************)
\* datetime.now().strftime("%Y%m%d_%H%M%S")
strftime(t) == t \div TicksPerSec

generate_checkpoint_id(t) == strftime(t)

\* datetime.now().isoformat()
isoformat(t) == t

CanonFlat(d) ==
    LET ks == SelectSeq(SortedKeys, LAMBDA k : Has(d, k))
    IN  [i \in 1..Len(ks) |-> <<ks[i], d.val[ks[i]]>>]

\* json.dumps(state) without sort_keys: the fields in dict order
json_dumps_unsorted(d) ==
    [i \in 1..Len(d.ord) |->
        <<d.ord[i], IF d.ord[i] \in DictKeys THEN DumpFlat(d.val[d.ord[i]])
                    ELSE d.val[d.ord[i]]>>]

\* json.dumps(state, sort_keys=True)
json_dumps_sorted(d) ==
    LET ks == SelectSeq(SortedKeys, LAMBDA k : Has(d, k))
    IN  [i \in 1..Len(ks) |->
            <<ks[i], IF ks[i] \in DictKeys THEN CanonFlat(d.val[ks[i]])
                     ELSE d.val[ks[i]]>>]

compute_state_hash(d) == json_dumps_sorted(d)

(***************************************************************************)
(* State documents the collaborators (initializer, agent, validator) write *)
(***************************************************************************)
SessionA == Dict(<<"id", "last_updated", "notes">>,
                 [id |-> "s1", last_updated |-> 0, notes |-> NoNote])
SessionB == Dict(<<"notes", "last_updated", "id">>,
                 [id |-> "s1", last_updated |-> 0, notes |-> NoNote])
SessionC == Dict(<<"id">>, [id |-> "s2"])

TaskA     == [id |-> "A", status |-> "in_progress"]
TaskNoId  == [status |-> "in_progress"]

\* DocInputs[1] and DocInputs[2] hold the same content in different field
\* order; [3] has no session section; [4] has an in_progress task without id
DocInputs == <<
    Dict(<<"phase", "tasks", "session">>,
         [phase |-> "planning", tasks |-> <<TaskA>>, session |-> SessionA]),
    Dict(<<"session", "tasks", "phase">>,
         [phase |-> "planning", tasks |-> <<TaskA>>, session |-> SessionB]),
    Dict(<<"phase", "tasks">>,
         [phase |-> "review", tasks |-> <<>>]),
    Dict(<<"tasks", "session">>,
         [tasks |-> <<TaskNoId>>, session |-> SessionC]) >>

Triggers == {"manual"}

\* every id a checkpoint can get within the clock's range
Ids == 0..strftime(MaxTime)

EmptyDir == [f \in {} |-> 0]

\* dir with file f written (created or overwritten) with content c
WriteIn(dir, f, c) == [x \in DOMAIN dir \cup {f} |-> IF x = f THEN c ELSE dir[x]]

\* dir without the files named in fs
RemoveFrom(dir, fs) == [x \in DOMAIN dir \ fs |-> dir[x]]

(***************************************************************************)
(* Bookkeeping of invocations (not program state)                          *)
(***************************************************************************)
\* `last` describes the invocation that has just returned; it is cleared
\* when time moves on or the files are changed from outside
Invocation(op, id, status, warned, parent, listed) ==
    [op |-> op, id |-> id, status |-> status, warned |-> warned,
     parent |-> parent, listed |-> listed]

NoInvocation == [op |-> "none", id |-> NoId, status |-> "none",
                 warned |-> FALSE, parent |-> NoId, listed |-> <<>>]

\* trail.stage: 1 after a successful restore of trail.id; 2 after a
\* successful create right after it (trail.live is the document that restore
\* left); 3 after the next restore of the same id, trail.ok telling whether
\* that one succeeded, which makes it the first restore of a next round
NoTrail == [stage |-> 0, id |-> NoId, live |-> NoFile, ok |-> FALSE]

AfterCreate(ok) ==
    IF ok /\ trail.stage \in {1, 3} /\ trail.ok
    THEN [stage |-> 2, id |-> trail.id, live |-> state, ok |-> TRUE]
    ELSE NoTrail

AfterTick ==
    IF trail.stage = 3
    THEN IF trail.ok THEN [trail EXCEPT !.stage = 1, !.live = NoFile]
         ELSE NoTrail
    ELSE trail

AfterRestore(id, ok) ==
    IF trail.stage = 2 /\ trail.id = id
    THEN [trail EXCEPT !.stage = 3, !.ok = ok]
    ELSE IF ok THEN [stage |-> 1, id |-> id, live |-> NoFile, ok |-> TRUE]
    ELSE NoTrail

(***************************************************************************)
(* Initial state: a project directory before any checkpoint operation      *)
(***************************************************************************)
EmptyManifest(k) ==
    [checkpoints |-> <<>>, latest |-> NoId, retention |-> [keep_last |-> k]]

\* no create invocation is under way
NoProcs == <<>>

Init ==
    /\ now = 0
    /\ cpdir \in BOOLEAN
    /\ \/ state = NoFile
       \/ \E i \in DOMAIN DocInputs : state = File(save_yaml_file(DocInputs[i]))
    /\ \/ manifest = NoFile
       \/ /\ cpdir
          /\ \E k \in 0..MaxKeep : manifest = File(EmptyManifest(k))
    /\ files = EmptyDir
    /\ backups = EmptyDir
    /\ altered = {}
    /\ edits = 0
    /\ last = NoInvocation
    /\ trail = NoTrail
    /\ hist = <<>>
    /\ bkdir = TRUE
    /\ procs = NoProcs

(***************************************************************************)
(* Environment                                                             *)
(***************************************************************************)
Tick ==
    /\ now < MaxTime
    /\ now' = now + 1
    /\ last' = NoInvocation
    /\ trail' = AfterTick
    /\ UNCHANGED <<aside, cpdir, state, manifest, files, backups, altered, edits, hist>>

\* a collaborator (re)writes the state document
WriteState ==
    /\ edits < MaxEdits
    /\ edits' = edits + 1
    /\ \E i \in DOMAIN DocInputs : state' = File(save_yaml_file(DocInputs[i]))
    /\ state' # state
    /\ last' = NoInvocation
    /\ trail' = NoTrail
    /\ UNCHANGED <<aside, now, cpdir, manifest, files, backups, altered, hist>>

\* the state document is removed from the project directory
RemoveState ==
    /\ edits < MaxEdits
    /\ edits' = edits + 1
    /\ Exists(state)
    /\ state' = NoFile
    /\ last' = NoInvocation
    /\ trail' = NoTrail
    /\ UNCHANGED <<aside, now, cpdir, manifest, files, backups, altered, hist>>

(***************************************************************************)
(* create                                                                  *)
(***************************************************************************)
\* enforce_retention: the manifest and the checkpoints directory afterwards
enforce_retention(m, dir) ==
    LET keep_last   == m.retention.keep_last
        checkpoints == m.checkpoints
    IN  IF Len(checkpoints) > keep_last
        THEN LET to_remove == SliceBeforeLast(checkpoints, keep_last)
             IN  [manifest |-> [m EXCEPT !.checkpoints =
                                    SliceLast(checkpoints, keep_last)],
                  files    |-> RemoveFrom(dir, {to_remove[i].file :
                                                i \in DOMAIN to_remove})]
        ELSE [manifest |-> m, files |-> dir]

\* the manifest create_checkpoint starts from
LoadOrNewManifest ==
    IF Exists(manifest) THEN Content(manifest)
    ELSE EmptyManifest(DefaultKeepLast)

\* t["id"] for t in tasks if t.get("status") == "in_progress"
InProgress(t) == "status" \in DOMAIN t /\ t.status = "in_progress"

ActiveTasks(tasks) ==
    LET act == SelectSeq(tasks, InProgress)
    IN  [i \in 1..Len(act) |-> act[i].id]

\* the checkpoint dict of lines 75-91, as save_yaml_file writes it at line 96
\* (the "parent" key is set at line 123, after the file was written)
BuildCheckpoint(st, checkpoint_id, trigger) ==
    [id             |-> checkpoint_id,
     created        |-> isoformat(now),
     trigger        |-> trigger,
     task_id        |-> NoId,
     state_hash     |-> compute_state_hash(st),
     state_snapshot |-> save_yaml_file(st),
     context        |-> [phase |-> IF Has(st, "phase") THEN st.val.phase
                                   ELSE "None",
                         phase_progress |-> 0,
                         active_tasks |->
                             ActiveTasks(IF Has(st, "tasks") THEN st.val.tasks
                                         ELSE <<>>)]]

ManifestEntry(checkpoint_id, trigger) ==
    [id |-> checkpoint_id, created |-> isoformat(now), trigger |-> trigger,
     task |-> NoId, file |-> checkpoint_id]

\* AddToManifest with `latest` set only while the manifest has none
AddToManifestStaleLatest(m, entry) ==
    [m EXCEPT !.checkpoints = Append(m.checkpoints, entry),
              !.latest = IF m.latest = NoId THEN entry.id ELSE m.latest]

\* lines 113-125: the entry is appended and `latest` moves to the new id
AddToManifest(m, entry) ==
    [m EXCEPT !.checkpoints = Append(m.checkpoints, entry),
              !.latest = entry.id]

\* CreateFails with the manifest loaded and saved before the failing check
CreateFailsSavesManifest(status) ==
    /\ last' = Invocation("create", NoId, status, FALSE, NoId, <<>>)
    /\ trail' = AfterCreate(FALSE)
    /\ manifest' = File(LoadOrNewManifest)
    /\ UNCHANGED <<aside, now, cpdir, state, files, backups, altered, edits, hist>>

\* lines 66-67 and the exceptions of lines 87 and 96: nothing was written
CreateFails(status) ==
    /\ last' = Invocation("create", NoId, status, FALSE, NoId, <<>>)
    /\ trail' = AfterCreate(FALSE)
    /\ UNCHANGED <<aside, now, cpdir, state, manifest, files, backups, altered, edits,
                   hist>>

create_checkpoint(trigger) ==
    IF ~Exists(state) THEN CreateFails("State file not found")
    ELSE
       LET st    == load_yaml_file(Content(state))
           tasks == IF Has(st, "tasks") THEN st.val.tasks ELSE <<>>
           checkpoint_id == generate_checkpoint_id(now)
       IN  IF \E i \in DOMAIN tasks :
                 InProgress(tasks[i]) /\ "id" \notin DOMAIN tasks[i]
           THEN CreateFails("KeyError")
           ELSE IF ~cpdir THEN CreateFails("FileNotFoundError")
           ELSE
           LET checkpoint == BuildCheckpoint(st, checkpoint_id, trigger)
               written    == WriteIn(files, checkpoint_id, checkpoint)
               m0         == LoadOrNewManifest
               entry      == ManifestEntry(checkpoint_id, trigger)
               m1         == AddToManifest(m0, entry)
               kept       == enforce_retention(m1, written)
           IN  /\ files' = kept.files
               /\ altered' = (altered \ {checkpoint_id}) \cap DOMAIN kept.files
               /\ manifest' = File(kept.manifest)
               /\ hist' = Append(hist, entry)
               /\ last' = Invocation("create", checkpoint_id, "ok", FALSE,
                                     m0.latest, <<>>)
               /\ trail' = AfterCreate(TRUE)
               /\ UNCHANGED <<aside, now, cpdir, state, backups, edits>>

(***************************************************************************)
(* list                                                                    *)
(***************************************************************************)
list_checkpoints ==
    /\ last' = Invocation("list", NoId, "ok", FALSE, NoId,
                          IF Exists(manifest)
                          THEN Content(manifest).checkpoints ELSE <<>>)
    /\ UNCHANGED <<aside, now, cpdir, state, manifest, files, backups, altered, edits,
                   trail, hist>>

(***************************************************************************)
(* restore                                                                 *)
(***************************************************************************)
\* FindEntry that looks at the newest manifest entry only
FindEntryNewestOnly(checkpoints, checkpoint_id) ==
    IF checkpoints # <<>> /\ checkpoints[Len(checkpoints)].id = checkpoint_id
    THEN Len(checkpoints)
    ELSE 0

\* the first manifest entry with this id (lines 190-194); 0 when there is none
FindEntry(checkpoints, checkpoint_id) ==
    IF \E i \in DOMAIN checkpoints : checkpoints[i].id = checkpoint_id
    THEN CHOOSE i \in DOMAIN checkpoints :
            /\ checkpoints[i].id = checkpoint_id
            /\ \A j \in 1..(i - 1) : checkpoints[j].id # checkpoint_id
    ELSE 0

\* StampSession with the session section rebuilt from the two stamped fields
StampSessionOnly(snapshot, checkpoint_id, t) ==
    DictSet(snapshot, "session",
            Dict(<<"last_updated", "notes">>,
                 [last_updated |-> isoformat(t), notes |-> checkpoint_id]))

\* lines 224-225: the session stamp put on the restored snapshot
StampSession(snapshot, checkpoint_id, t) ==
    LET s1 == DictSet(snapshot.val.session, "last_updated", isoformat(t))
        s2 == DictSet(s1, "notes", checkpoint_id)
    IN  DictSet(snapshot, "session", s2)

\* lines 211-212: whether the integrity warning is printed
HashMismatch(expected_hash, actual_hash) == actual_hash # expected_hash

\* BackupState that leaves a backup file of the same second as it is
BackupStateKeepsFirst(dir, t) ==
    IF Exists(state) /\ strftime(t) \notin DOMAIN dir
    THEN WriteIn(dir, strftime(t), Content(state))
    ELSE dir

\* lines 214-218: the backups directory after the pre-restore copy
BackupState(dir, t) ==
    IF Exists(state) THEN WriteIn(dir, strftime(t), Content(state)) ELSE dir

\* RestoreFails with the pre-restore backup taken before the id is resolved
RestoreFailsAfterBackup(id, status) ==
    /\ last' = Invocation("restore", NoId, status, FALSE, NoId, <<>>)
    /\ trail' = AfterRestore(id, FALSE)
    /\ backups' = BackupState(backups, now)
    /\ UNCHANGED <<aside, now, cpdir, state, manifest, files, altered, edits, hist>>

\* lines 175-202: the raise statements of restore_checkpoint
RestoreFails(id, status) ==
    /\ last' = Invocation("restore", NoId, status, FALSE, NoId, <<>>)
    /\ trail' = AfterRestore(id, FALSE)
    /\ UNCHANGED <<aside, now, cpdir, state, manifest, files, backups, altered, edits,
                   hist>>

\* RestoreWrite with a fingerprint mismatch treated as fatal
RestoreWriteStrict(checkpoint_id, state_snapshot, warned) ==
    IF warned
    THEN /\ last' = Invocation("restore", checkpoint_id, "hash mismatch", TRUE,
                               NoId, <<>>)
         /\ trail' = AfterRestore(checkpoint_id, FALSE)
         /\ UNCHANGED <<aside, now, cpdir, state, manifest, files, backups, altered,
                        edits, hist>>
    ELSE /\ backups' = BackupState(backups, now)
         /\ state' = File(save_yaml_file(
                IF Has(state_snapshot, "session")
                THEN StampSession(state_snapshot, checkpoint_id, now)
                ELSE state_snapshot))
         /\ last' = Invocation("restore", checkpoint_id,
                               IF Has(state_snapshot, "session") THEN "ok"
                               ELSE "KeyError", FALSE, NoId, <<>>)
         /\ trail' = AfterRestore(checkpoint_id,
                                  Has(state_snapshot, "session"))
         /\ UNCHANGED <<aside, now, cpdir, manifest, files, altered, edits, hist>>

\* RestoreWrite with the manifest's `latest` moved to the restored checkpoint
RestoreWriteMovesLatest(checkpoint_id, state_snapshot, warned) ==
    /\ backups' = BackupState(backups, now)
    /\ manifest' = File([Content(manifest) EXCEPT !.latest = checkpoint_id])
    /\ IF Has(state_snapshot, "session")
       THEN /\ state' = File(save_yaml_file(
                   StampSession(state_snapshot, checkpoint_id, now)))
            /\ last' = Invocation("restore", checkpoint_id, "ok", warned,
                                  NoId, <<>>)
            /\ trail' = AfterRestore(checkpoint_id, TRUE)
       ELSE /\ state' = File(save_yaml_file(state_snapshot))
            /\ last' = Invocation("restore", checkpoint_id, "KeyError",
                                  warned, NoId, <<>>)
            /\ trail' = AfterRestore(checkpoint_id, FALSE)
    /\ UNCHANGED <<aside, now, cpdir, files, altered, edits, hist>>

\* lines 214-233: backup, overwrite, stamp, overwrite again, summary
RestoreWrite(checkpoint_id, state_snapshot, warned) ==
    /\ backups' = BackupState(backups, now)
    /\ IF Has(state_snapshot, "session")
       THEN /\ state' = File(save_yaml_file(
                   StampSession(state_snapshot, checkpoint_id, now)))
            /\ last' = Invocation("restore", checkpoint_id, "ok", warned,
                                  NoId, <<>>)
            /\ trail' = AfterRestore(checkpoint_id, TRUE)
       ELSE /\ state' = File(save_yaml_file(state_snapshot))
            /\ last' = Invocation("restore", checkpoint_id, "KeyError",
                                  warned, NoId, <<>>)
            /\ trail' = AfterRestore(checkpoint_id, FALSE)
    /\ UNCHANGED <<aside, now, cpdir, manifest, files, altered, edits, hist>>

restore_checkpoint(id_arg, latest) ==
    IF ~Exists(manifest) THEN RestoreFails(id_arg, "No checkpoints found")
    ELSE
    LET m == Content(manifest)
        checkpoint_id == IF latest THEN m.latest ELSE id_arg
    IN  IF latest /\ checkpoint_id = NoId
        THEN RestoreFails(NoId, "No latest checkpoint available")
        ELSE IF checkpoint_id = NoId
        THEN RestoreFails(NoId, "Must specify checkpoint ID or --latest")
        ELSE
        LET e == FindEntry(m.checkpoints, checkpoint_id)
        IN  IF e = 0 THEN RestoreFails(checkpoint_id, "Checkpoint not found")
            ELSE IF m.checkpoints[e].file \notin DOMAIN files
            THEN RestoreFails(checkpoint_id, "Checkpoint file missing")
            ELSE
            LET checkpoint     == files[m.checkpoints[e].file]
                state_snapshot == load_yaml_file(checkpoint.state_snapshot)
                warned == HashMismatch(checkpoint.state_hash,
                                       compute_state_hash(state_snapshot))
            IN  IF Exists(state) /\ ~bkdir
                THEN RestoreFails(checkpoint_id, "OSError")
                ELSE RestoreWrite(checkpoint_id, state_snapshot, warned)

(***************************************************************************)
(* A stored snapshot altered behind the manager's back                     *)
(***************************************************************************)
Corrupted(text) ==
    [i \in 1..Len(text) |->
        IF text[i][1] = "phase" THEN <<"phase", "corrupted">> ELSE text[i]]

CorruptCheckpoint ==
    /\ edits < MaxEdits
    /\ edits' = edits + 1
    /\ \E f \in DOMAIN files :
          /\ Corrupted(files[f].state_snapshot) # files[f].state_snapshot
          /\ files' = [files EXCEPT ![f].state_snapshot =
                                        Corrupted(files[f].state_snapshot)]
          /\ altered' = altered \cup {f}
    /\ last' = NoInvocation
    /\ trail' = NoTrail
    /\ UNCHANGED <<aside, now, cpdir, state, manifest, backups, hist>>

(***************************************************************************)
(* Specification: one writer, one invocation at a time                     *)
(***************************************************************************)
Create  == /\ Len(hist) < MaxCreates
           /\ \E trigger \in Triggers : create_checkpoint(trigger)
List    == list_checkpoints
Restore == \E id_arg \in Ids \cup {NoId}, latest \in BOOLEAN :
               restore_checkpoint(id_arg, latest)

Next ==
    \/ Tick
    \/ WriteState
    \/ RemoveState
    \/ CorruptCheckpoint
    \/ Create
    \/ List
    \/ Restore

Spec == Init /\ [][Next]_vars

(***************************************************************************)
(* The checkpoint manager on a project whose backups/ cannot be written:   *)
(* mkdir or shutil.copy of lines 217-218 raises OSError                    *)
(***************************************************************************)
BackupFaultInit ==
    /\ now = 0
    /\ cpdir = TRUE
    /\ \/ state = NoFile
       \/ \E i \in DOMAIN DocInputs : state = File(save_yaml_file(DocInputs[i]))
    /\ \/ manifest = NoFile
       \/ \E k \in 0..MaxKeep : manifest = File(EmptyManifest(k))
    /\ files = EmptyDir
    /\ backups = EmptyDir
    /\ altered = {}
    /\ edits = 0
    /\ last = NoInvocation
    /\ trail = NoTrail
    /\ hist = <<>>
    /\ bkdir = FALSE
    /\ procs = NoProcs

BackupFaultSpec == BackupFaultInit /\ [][Next]_vars

(***************************************************************************)
(* The checkpoint manager creating a longer chain of checkpoints, the      *)
(* state document being changed by restore only                            *)
(***************************************************************************)
ChainInit ==
    /\ now = 0
    /\ cpdir = TRUE
    /\ \E i \in 1..3 : state = File(save_yaml_file(DocInputs[i]))
    /\ \/ manifest = NoFile
       \/ \E k \in 0..MaxKeep : manifest = File(EmptyManifest(k))
    /\ files = EmptyDir
    /\ backups = EmptyDir
    /\ altered = {}
    /\ edits = 0
    /\ last = NoInvocation
    /\ trail = NoTrail
    /\ hist = <<>>
    /\ bkdir = TRUE
    /\ procs = NoProcs

ChainCreate == /\ Len(hist) < MaxChain
               /\ \E trigger \in Triggers : create_checkpoint(trigger)

ChainNext ==
    \/ Tick
    \/ ChainCreate
    \/ Restore

ChainSpec == ChainInit /\ [][ChainNext]_vars

(***************************************************************************)
(* Two create invocations side by side on one project directory.  There is *)
(* no lock: each invocation is a process of its own, and the steps of the  *)
(* two interleave at every read and write of a file.                       *)
(*                                                                         *)
(* procs[p] holds what invocation p has in memory: the step it is at, the  *)
(* state document and the manifest it loaded, its checkpoint id and        *)
(* creation time; `seen` is the number of manifest saves that had been     *)
(* made when p loaded the manifest and `saved` the rank of p's own save    *)
(* (bookkeeping, not program state).                                       *)
(***************************************************************************)
Procs == {1, 2}

Idle == [pc |-> "start", st |-> NoFile, id |-> NoId, created |-> 0,
         m |-> NoFile, seen |-> 0, saved |-> 0]

RaceInit ==
    /\ now = 0
    /\ cpdir = TRUE
    /\ \E i \in 1..3 : state = File(save_yaml_file(DocInputs[i]))
    /\ \/ manifest = NoFile
       \/ manifest = File(EmptyManifest(DefaultKeepLast))
    /\ files = EmptyDir
    /\ backups = EmptyDir
    /\ altered = {}
    /\ edits = 0
    /\ last = NoInvocation
    /\ trail = NoTrail
    /\ hist = <<>>
    /\ bkdir = TRUE
    /\ procs = [p \in Procs |-> Idle]

\* lines 66-69: the state document is loaded
LoadState(p) ==
    /\ procs[p].pc = "start"
    /\ Exists(state)
    /\ procs' = [procs EXCEPT ![p].pc = "loaded",
                              ![p].st = File(load_yaml_file(Content(state)))]
    /\ UNCHANGED <<now, cpdir, state, manifest, files, backups, altered, edits,
                   last, trail, hist, bkdir>>

\* lines 72-96: the id and the checkpoint are made and the checkpoint file
\* is written
SaveCheckpoint(p, trigger) ==
    /\ procs[p].pc = "loaded"
    /\ LET checkpoint_id == generate_checkpoint_id(now)
           checkpoint    == BuildCheckpoint(Content(procs[p].st),
                                            checkpoint_id, trigger)
       IN  /\ files' = WriteIn(files, checkpoint_id, checkpoint)
           /\ procs' = [procs EXCEPT ![p].pc = "stored",
                                     ![p].id = checkpoint_id,
                                     ![p].created = isoformat(now)]
    /\ UNCHANGED <<now, cpdir, state, manifest, backups, altered, edits, last,
                   trail, hist, bkdir>>

\* lines 99-110: the manifest is loaded, or a new one made
LoadManifest(p) ==
    /\ procs[p].pc = "stored"
    /\ procs' = [procs EXCEPT ![p].pc = "read",
                              ![p].m = File(LoadOrNewManifest),
                              ![p].seen = Len(hist)]
    /\ UNCHANGED <<now, cpdir, state, manifest, files, backups, altered, edits,
                   last, trail, hist, bkdir>>

\* OwnManifest that loads the manifest again when it is about to be saved
ManifestReloaded(p) == LoadOrNewManifest

\* the manifest invocation p works on: the one it loaded
OwnManifest(p) == Content(procs[p].m)

\* lines 113-130: entry appended, `latest` moved, retention enforced and the
\* manifest saved; create returns
SaveManifest(p, trigger) ==
    /\ procs[p].pc = "read"
    /\ LET m0    == OwnManifest(p)
           entry == [ManifestEntry(procs[p].id, trigger)
                         EXCEPT !.created = procs[p].created]
           kept  == enforce_retention(AddToManifest(m0, entry), files)
       IN  /\ files' = kept.files
           /\ manifest' = File(kept.manifest)
           /\ hist' = Append(hist, entry)
           /\ procs' = [procs EXCEPT ![p].pc = "done",
                                     ![p].saved = Len(hist) + 1]
           /\ last' = Invocation("create", procs[p].id, "ok", FALSE,
                                 m0.latest, <<>>)
    /\ UNCHANGED <<now, cpdir, state, backups, altered, edits, trail, bkdir>>

\* the clock moves while the invocations run
RaceTick ==
    /\ now < MaxTime
    /\ now' = now + 1
    /\ UNCHANGED <<cpdir, state, manifest, files, backups, altered, edits,
                   last, trail, hist, bkdir, procs>>

RaceNext ==
    \/ RaceTick
    \/ \E p \in Procs : LoadState(p)
    \/ \E p \in Procs, trigger \in Triggers : SaveCheckpoint(p, trigger)
    \/ \E p \in Procs : LoadManifest(p)
    \/ \E p \in Procs, trigger \in Triggers : SaveManifest(p, trigger)

RaceSpec == RaceInit /\ [][RaceNext]_vars

(***************************************************************************)
(* State validator (skill/scripts/validate_state.py)                       *)
(*                                                                         *)
(* A task and the project section are records that hold only the keys the  *)
(* document gives them; d.get(k) is falsy exactly when k is not among      *)
(* them.  An error or warning message is a record of the parts the         *)
(* f-string is built from.  Under ValidatorSpec `last` describes the last  *)
(* run of the validation command.                                          *)
(***************************************************************************)
NoneId  == "None"       \* str(None), where a message prints a missing value
NoIndex == -1           \* a message that names no list index

Msg(kind, index, task, arg, ids) ==
    [kind |-> kind, index |-> index, task |-> task, arg |-> arg, ids |-> ids]

\* d.get(k) is truthy
Truthy(d, k) == k \in DOMAIN d

\* task.get("id")
TaskId(task) == IF Truthy(task, "id") THEN task.id ELSE NoneId

\* task.get("status")
TaskStatus(task) == IF Truthy(task, "status") THEN task.status ELSE NoneId

\* task.get("dependencies", {}).get(kind, [])
Deps(task, kind) ==
    IF Truthy(task, "dependencies") /\ kind \in DOMAIN task.dependencies
    THEN task.dependencies[kind]
    ELSE <<>>

\* state.get("tasks", [])
TasksOf(st) == IF Has(st, "tasks") THEN st.val.tasks ELSE <<>>

\* the lists in ss, one after the other (what extend and the appends of a
\* nested loop build)
RECURSIVE Flatten(_)
Flatten(ss) == IF ss = <<>> THEN <<>> ELSE Head(ss) \o Flatten(Tail(ss))

RequiredFields == <<"project", "phase", "tasks", "session">>

validate_required_fields(st) ==
    Flatten([i \in DOMAIN RequiredFields |->
                LET field == RequiredFields[i]
                IN  IF Has(st, field) THEN <<>>
                    ELSE <<Msg("Missing required field", NoIndex, "", field,
                               {})>>])

validate_project(st) ==
    LET project == IF Has(st, "project") THEN st.val.project
                   ELSE [k \in {} |-> ""]
        Missing(k, text) ==
            IF Truthy(project, k) THEN <<>>
            ELSE <<Msg(text, NoIndex, "", k, {})>>
    IN  [errors   |-> Missing("id", "Project missing") \o
                      Missing("name", "Project missing"),
         warnings |-> Missing("goal", "Project missing") \o
                      Missing("created", "Project missing")]

ValidPhases == {"planning", "implementation", "review", "complete"}

validate_phase(st) ==
    LET phase == IF Has(st, "phase") THEN st.val.phase ELSE NoneId
    IN  IF phase \in ValidPhases THEN <<>>
        ELSE <<Msg("Invalid phase", NoIndex, "", phase, {})>>

ValidStatuses == {"pending", "in_progress", "completed", "verified",
                  "blocked", "needs_human"}

\* the milestone timestamp a status implies, as (status, timestamp) pairs in
\* the order the code looks at them
Milestones == << <<"completed", "completed_at">>,
                 <<"verified", "verified_at">>,
                 <<"in_progress", "started_at">> >>

\* lines 116-123: the missing-timestamp warnings of one task
TimestampWarnings(task) ==
    Flatten([i \in DOMAIN Milestones |->
                LET m == Milestones[i]
                IN  IF TaskStatus(task) = m[1] /\ ~Truthy(task, m[2])
                    THEN <<Msg("missing timestamp", NoIndex, TaskId(task),
                               m[2], {})>>
                    ELSE <<>>])

\* lines 102-128: the checks on one task that has an id
CheckTask(task, task_ids) ==
    [errors |->
        (IF Truthy(task, "name") THEN <<>>
         ELSE <<Msg("Task missing 'name'", NoIndex, task.id, "", {})>>) \o
        (IF task.id \in task_ids
         THEN <<Msg("Duplicate task ID", NoIndex, task.id, "", {})>>
         ELSE <<>>) \o
        (IF TaskStatus(task) \in ValidStatuses THEN <<>>
         ELSE <<Msg("invalid status", NoIndex, task.id, TaskStatus(task),
                    {})>>),
     warnings |->
        TimestampWarnings(task) \o
        (IF Truthy(task, "acceptance_criteria")
            /\ Len(task.acceptance_criteria) >= 1
         THEN <<>>
         ELSE <<Msg("no acceptance criteria", NoIndex, task.id, "", {})>>)]

\* lines 94-128: the loop over enumerate(tasks), from list index i on; a
\* task without id gets its one error and the loop continues with the next
RECURSIVE TaskLoop(_, _, _, _, _)
TaskLoop(tasks, i, task_ids, errors, warnings) ==
    IF i > Len(tasks)
    THEN [task_ids |-> task_ids, errors |-> errors, warnings |-> warnings]
    ELSE IF ~Truthy(tasks[i], "id")
    THEN TaskLoop(tasks, i + 1, task_ids,
                  Append(errors, Msg("Task missing 'id'", i - 1, "", "", {})),
                  warnings)
    ELSE LET c == CheckTask(tasks[i], task_ids)
         IN  TaskLoop(tasks, i + 1, task_ids \cup {tasks[i].id},
                      errors \o c.errors, warnings \o c.warnings)

\* lines 131-141: the dependency ids of one task that name no task
Dangling(task, kind, task_ids) ==
    Flatten([j \in DOMAIN Deps(task, kind) |->
                LET dep == Deps(task, kind)[j]
                IN  IF dep \in task_ids THEN <<>>
                    ELSE <<Msg(kind, NoIndex, TaskId(task), dep, {})>>])

\* validate_tasks with the soft dependencies that name no task put among
\* the errors
validate_tasks_soft_errors(st) ==
    LET tasks == TasksOf(st)
        loop  == TaskLoop(tasks, 1, {}, <<>>, <<>>)
    IN  [errors   |-> loop.errors \o
                      Flatten([i \in DOMAIN tasks |->
                          Dangling(tasks[i], "hard", loop.task_ids) \o
                          Dangling(tasks[i], "soft", loop.task_ids)]),
         warnings |-> loop.warnings]

validate_tasks(st) ==
    LET tasks == TasksOf(st)
        loop  == TaskLoop(tasks, 1, {}, <<>>, <<>>)
    IN  [errors   |-> loop.errors \o
                      Flatten([i \in DOMAIN tasks |->
                          Dangling(tasks[i], "hard", loop.task_ids)]),
         warnings |-> loop.warnings \o
                      Flatten([i \in DOMAIN tasks |->
                          Dangling(tasks[i], "soft", loop.task_ids)])]

\* lines 155-161: one (dep, task_id) pair per hard dependency listed, in the
\* order the two loops meet them
Edges(tasks) ==
    Flatten([i \in 1..Len(tasks) |->
                [j \in 1..Len(Deps(tasks[i], "hard")) |->
                    <<Deps(tasks[i], "hard")[j], TaskId(tasks[i])>>]])

\* Edges without the dependencies of a task on itself
EdgesSkipSelf(tasks) ==
    SelectSeq(Edges(tasks), LAMBDA e : e[1] # e[2])

\* all_ids
AllIds(tasks) == {TaskId(tasks[i]) : i \in 1..Len(tasks)}

\* every key the two defaultdicts can get
Nodes(tasks) ==
    AllIds(tasks) \cup {Edges(tasks)[i][1] : i \in 1..Len(Edges(tasks))}

\* graph[dep]: the ids of the tasks that list dep, one per listing
Graph(tasks, edges) ==
    [n \in Nodes(tasks) |->
        LET out == SelectSeq(edges, LAMBDA e : e[1] = n)
        IN  [i \in 1..Len(out) |-> out[i][2]]]

\* in_degree[task_id]: how many hard dependencies the tasks of that id list
InDegree(tasks, edges) ==
    [n \in Nodes(tasks) |-> Len(SelectSeq(edges, LAMBDA e : e[2] = n))]

\* a set as a list, in some order (the iteration order of a Python set)
RECURSIVE ListOf(_)
ListOf(s) ==
    IF s = {} THEN <<>>
    ELSE LET x == CHOOSE x \in s : TRUE IN <<x>> \o ListOf(s \ {x})

\* lines 171-174: the neighbours of the node just sorted
RECURSIVE Relax(_, _, _)
Relax(neighbors, in_degree, queue) ==
    IF neighbors = <<>> THEN [in_degree |-> in_degree, queue |-> queue]
    ELSE LET n == Head(neighbors)
             d == [in_degree EXCEPT ![n] = @ - 1]
         IN  Relax(Tail(neighbors), d,
                   IF d[n] = 0 THEN Append(queue, n) ELSE queue)

\* lines 167-174: Kahn's algorithm; the result is sorted_order
RECURSIVE Kahn(_, _, _, _)
Kahn(queue, in_degree, graph, sorted_order) ==
    IF queue = <<>> THEN sorted_order
    ELSE LET current == Head(queue)
             r == Relax(graph[current], in_degree, Tail(queue))
         IN  Kahn(r.queue, r.in_degree, graph, Append(sorted_order, current))

\* validate_dag with the given (dep, task_id) pairs as its edges
DagOf(tasks, edges) ==
    LET all_ids   == AllIds(tasks)
        graph     == Graph(tasks, edges)
        in_degree == InDegree(tasks, edges)
        queue     == ListOf({t \in all_ids : in_degree[t] = 0})
        sorted_order == Kahn(queue, in_degree, graph, <<>>)
    IN  IF Len(sorted_order) # Cardinality(all_ids)
        THEN [ok |-> FALSE,
              remaining |-> all_ids \ {sorted_order[i] :
                                          i \in 1..Len(sorted_order)}]
        ELSE [ok |-> TRUE, remaining |-> {}]

\* validate_dag that leaves a task's dependency on itself out of the graph
validate_dag_skip_self(st) == DagOf(TasksOf(st), EdgesSkipSelf(TasksOf(st)))

validate_dag(st) == DagOf(TasksOf(st), Edges(TasksOf(st)))

\* context_usage > 0.8, the ratio counted in percent
HighUsage == 80

validate_session(st) ==
    LET session == IF Has(st, "session") THEN st.val.session
                   ELSE Dict(<<>>, [k \in {} |-> 0])
        Missing(k) == IF Has(session, k) THEN <<>>
                      ELSE <<Msg("Session missing", NoIndex, "", k, {})>>
    IN  Missing("id") \o Missing("last_updated") \o
        (IF Has(session, "context_usage")
            /\ session.val["context_usage"] > HighUsage
         THEN <<Msg("Context usage is high", NoIndex, "", "", {})>>
         ELSE <<>>)

\* RepairTask that stamps the milestone whether or not it has a timestamp
RepairTaskRestamp(task, t) ==
    LET due == SelectSeq(Milestones, LAMBDA m : TaskStatus(task) = m[1])
    IN  IF due = <<>> THEN task ELSE WriteIn(task, due[1][2], t)

\* lines 211-221: one task after the timestamp its status implies was set
RepairTask(task, t) ==
    LET due == SelectSeq(Milestones,
                   LAMBDA m : TaskStatus(task) = m[1] /\ ~Truthy(task, m[2]))
    IN  IF due = <<>> THEN task ELSE WriteIn(task, due[1][2], t)

\* the entries of `repairs` that one task adds
RepairsOf(task) ==
    Flatten([i \in DOMAIN Milestones |->
                LET m == Milestones[i]
                IN  IF TaskStatus(task) = m[1] /\ ~Truthy(task, m[2])
                    THEN <<Msg("Set", NoIndex, TaskId(task), m[2], {})>>
                    ELSE <<>>])

\* RepairSession that makes the session section when there is none
RepairSessionAlways(st, t) ==
    [state   |-> DictSet(st, "session",
                         DictSet(IF Has(st, "session") THEN st.val.session
                                 ELSE Dict(<<>>, [k \in {} |-> 0]),
                                 "last_updated", t)),
     repairs |-> <<Msg("Updated session.last_updated", NoIndex, "", "", {})>>]

\* lines 224-226: the session stamp and its entry in `repairs`
RepairSession(st, t) ==
    IF Has(st, "session")
    THEN [state   |-> DictSet(st, "session",
                              DictSet(st.val.session, "last_updated", t)),
          repairs |-> <<Msg("Updated session.last_updated", NoIndex, "", "",
                            {})>>]
    ELSE [state |-> st, repairs |-> <<>>]

\* lines 208-221: the task list after the loop
RepairTasks(st, t) ==
    IF Has(st, "tasks")
    THEN DictSet(st, "tasks", [i \in 1..Len(st.val.tasks) |->
                                  RepairTask(st.val.tasks[i], t)])
    ELSE st

\* auto_repair(state, errors, warnings) at time t: (state, repairs); the two
\* lists are not looked at
auto_repair(st, t) ==
    LET stamped == RepairSession(RepairTasks(st, isoformat(t)), isoformat(t))
    IN  [state   |-> stamped.state,
         repairs |-> Flatten([i \in DOMAIN TasksOf(st) |->
                                 RepairsOf(TasksOf(st)[i])]) \o
                     stamped.repairs]

\* load_state(path)
load_state == load_yaml_file(Content(state))

\* save_state(state, path): the file it leaves
save_state(st) == File(save_yaml_file(st))

\* ValidateAll with the deeper stages run whatever the first one found
ValidateAllDeep(st) ==
    LET required == validate_required_fields(st)
        project  == validate_project(st)
        tasks    == validate_tasks(st)
        dag      == validate_dag(st)
    IN  [deep     |-> TRUE,
         dag      |-> dag,
         errors   |-> required \o project.errors \o validate_phase(st) \o
                      tasks.errors \o
                      (IF dag.ok THEN <<>>
                       ELSE <<Msg("Circular dependency", NoIndex, "", "",
                                  dag.remaining)>>),
         warnings |-> project.warnings \o tasks.warnings \o
                      validate_session(st),
         tasks    |-> tasks]

\* lines 277-294: every validation stage, the later ones only when no
\* required field is absent
ValidateAll(st) ==
    LET required == validate_required_fields(st)
        deep     == required = <<>>
        project  == validate_project(st)
        tasks    == validate_tasks(st)
        dag      == validate_dag(st)
    IN  [deep     |-> deep,
         dag      |-> IF deep THEN dag ELSE [ok |-> TRUE, remaining |-> {}],
         errors   |-> IF deep
                      THEN required \o project.errors \o validate_phase(st) \o
                           tasks.errors \o
                           (IF dag.ok THEN <<>>
                            ELSE <<Msg("Circular dependency", NoIndex, "", "",
                                       dag.remaining)>>)
                      ELSE required,
         warnings |-> IF deep
                      THEN project.warnings \o tasks.warnings \o
                           validate_session(st)
                      ELSE <<>>,
         tasks    |-> IF deep THEN tasks
                      ELSE [errors |-> <<>>, warnings |-> <<>>]]

\* Run with the exit status 1 for warnings as well
RunStrict(fix, status, v, repairs, before, doc) ==
    [op |-> "validate", fix |-> fix, status |-> status, deep |-> v.deep,
     dag |-> v.dag, errors |-> v.errors, warnings |-> v.warnings,
     tasks |-> v.tasks, repairs |-> repairs, before |-> before, doc |-> doc,
     code |-> IF v.errors # <<>> \/ v.warnings # <<>> THEN 1 ELSE 0]

\* what a run of the validation command leaves in `last`
Run(fix, status, v, repairs, before, doc) ==
    [op |-> "validate", fix |-> fix, status |-> status, deep |-> v.deep,
     dag |-> v.dag, errors |-> v.errors, warnings |-> v.warnings,
     tasks |-> v.tasks, repairs |-> repairs, before |-> before, doc |-> doc,
     code |-> IF v.errors # <<>> THEN 1 ELSE 0]

\* lines 327-337 with the --fix flag not looked at
RepairingAlways(fix, v) == v.errors # <<>> \/ v.warnings # <<>>

\* line 327: whether auto_repair is called
Repairing(fix, v) == fix /\ (v.errors # <<>> \/ v.warnings # <<>>)

\* main(): the validation command, with or without --fix
validate_state_main(fix) ==
    IF ~Exists(state)
    THEN /\ last' = [op |-> "validate", fix |-> fix, status |-> "not found",
                     code |-> 1]
         /\ UNCHANGED <<aside, now, cpdir, state, manifest, files, backups, altered,
                        edits, trail, hist>>
    ELSE LET st  == load_state
             v   == ValidateAll(st)
             rep == auto_repair(st, now)
             repairing == Repairing(fix, v)
         IN  /\ state' = IF repairing /\ rep.repairs # <<>>
                         THEN save_state(rep.state) ELSE state
             /\ last' = Run(fix, "ok", v,
                            IF repairing THEN rep.repairs ELSE <<>>,
                            st, IF repairing THEN rep.state ELSE st)
             /\ UNCHANGED <<aside, now, cpdir, manifest, files, backups, altered,
                            edits, trail, hist>>

(***************************************************************************)
(* Documents given to the validator                                        *)
(***************************************************************************)

\* a timestamp that a document already carries
Earlier == isoformat(0)

ProjectFull == [id |-> "p1", name |-> "demo", goal |-> "g", created |-> Earlier]
ProjectBare == [goal |-> "g"]

SessionBusy == Dict(<<"id", "context_usage">>,
                    [id |-> "s3", context_usage |-> 90])

\* the document without its task list: complete; with defects in every
\* section; without the session section; with the project section only
Frames == <<
    Dict(<<"project", "phase", "tasks", "session">>,
         [project |-> ProjectFull, phase |-> "planning", tasks |-> <<>>,
          session |-> SessionA]),
    Dict(<<"project", "phase", "tasks", "session">>,
         [project |-> ProjectBare, phase |-> "draft", tasks |-> <<>>,
          session |-> SessionBusy]),
    Dict(<<"project", "phase", "tasks">>,
         [project |-> ProjectFull, phase |-> "planning", tasks |-> <<>>]) >>

ProjectOnly == Dict(<<"project">>, [project |-> ProjectFull])

\* what a task holds besides its id and its hard dependencies
Profiles == <<
    [name |-> "n", status |-> "completed", acceptance_criteria |-> <<"c">>],
    [status |-> "started", dependencies |-> [soft |-> <<"Z">>]],
    [name |-> "n", status |-> "in_progress", completed_at |-> Earlier,
     dependencies |-> [soft |-> <<"A">>]],
    [name |-> "n", status |-> "verified", completed_at |-> Earlier,
     acceptance_criteria |-> <<"c">>] >>

IdChoices   == {"A", "B", NoneId}
HardChoices == {<<>>, <<"A">>, <<"B">>, <<"Z">>}

MakeTask(id, hard, profile) ==
    LET named == IF id = NoneId THEN profile ELSE WriteIn(profile, "id", id)
    IN  IF hard = <<>> THEN named
        ELSE WriteIn(named, "dependencies",
                     IF Truthy(profile, "dependencies")
                     THEN WriteIn(profile.dependencies, "hard", hard)
                     ELSE [hard |-> hard])

TaskInputs ==
    {MakeTask(id, hard, Profiles[p]) :
        id \in IdChoices, hard \in HardChoices, p \in DOMAIN Profiles}

TaskLists(n) == UNION {[1..k -> TaskInputs] : k \in 0..n}

\* the complete document comes with every task list, the others with the
\* lists of at most one task
TaskListsOf(i) == IF i = 1 THEN TaskLists(MaxTasks) ELSE TaskLists(1)

ValidatorInit ==
    /\ now = 0
    /\ \/ state = NoFile
       \/ state = File(save_yaml_file(ProjectOnly))
       \/ \E i \in DOMAIN Frames : \E tasks \in TaskListsOf(i) :
             state = File(save_yaml_file(DictSet(Frames[i], "tasks", tasks)))
    /\ last = NoInvocation
    /\ cpdir = FALSE
    /\ manifest = NoFile
    /\ files = EmptyDir
    /\ backups = EmptyDir
    /\ altered = {}
    /\ edits = 0
    /\ trail = NoTrail
    /\ hist = <<>>
    /\ bkdir = TRUE
    /\ procs = NoProcs

\* time passes between two runs of the command
Later ==
    /\ now < MaxLater
    /\ now' = now + 1
    /\ UNCHANGED <<aside, cpdir, state, manifest, files, backups, altered, edits,
                   last, trail, hist>>

Validate    == validate_state_main(FALSE)
ValidateFix == validate_state_main(TRUE)

ValidatorNext ==
    \/ Later
    \/ Validate
    \/ ValidateFix

ValidatorSpec == ValidatorInit /\ [][ValidatorNext]_vars

(***************************************************************************)
(* Both commands at work on one project directory                          *)
(***************************************************************************)
\* checkpoint.py main, lines 293-339: the exit status of the command whose
\* outcome is given: 1 when create or restore raised, 0 when it returned
ExitStatus(outcome) == IF outcome.status = "ok" THEN 0 ELSE 1

\* documents with errors, with a warning only, and without findings
CommandDocs == <<
    DocInputs[4],
    DictSet(Frames[1], "tasks", <<MakeTask("A", <<>>, Profiles[1])>>),
    DictSet(Frames[1], "tasks", <<MakeTask("A", <<>>, Profiles[4])>>) >>

CommandInit ==
    /\ now = 0
    /\ cpdir = TRUE
    /\ \/ state = NoFile
       \/ \E i \in DOMAIN CommandDocs :
             state = File(save_yaml_file(CommandDocs[i]))
    /\ \/ manifest = NoFile
       \/ \E k \in 0..MaxKeep : manifest = File(EmptyManifest(k))
    /\ files = EmptyDir
    /\ backups = EmptyDir
    /\ altered = {}
    /\ edits = 0
    /\ last = NoInvocation
    /\ trail = NoTrail
    /\ hist = <<>>
    /\ bkdir = TRUE
    /\ procs = NoProcs

CommandNext ==
    \/ Tick
    \/ Create
    \/ Restore
    \/ Validate
    \/ ValidateFix

CommandSpec == CommandInit /\ [][CommandNext]_vars

(***************************************************************************)
(* Properties                                                              *)
(***************************************************************************)
Checkpoints == IF Exists(manifest) THEN Content(manifest).checkpoints ELSE <<>>
Latest      == IF Exists(manifest) THEN Content(manifest).latest ELSE NoId
KeepLast    == IF Exists(manifest) THEN Content(manifest).retention.keep_last
               ELSE DefaultKeepLast

\* C1: once more checkpoints were created than keep_last = K allows, the
\* manifest holds exactly K entries: the K most recently created ones, in
\* creation order.
C1_KeepsLastK ==
    Len(hist) > KeepLast =>
        Checkpoints = SubSeq(hist, Len(hist) - KeepLast + 1, Len(hist))

\* C6: the ids of any two successful creates differ, and the later create
\* has the greater id.
C6_IdsIncrease ==
    \A i, j \in DOMAIN hist : i < j => hist[i].id < hist[j].id

\* C7: `latest` is none exactly when no checkpoint was created; otherwise it
\* is the id of the most recently created checkpoint, and that id has an
\* entry in the manifest's list.
C7_LatestIsNewest ==
    /\ Latest = NoId <=> hist = <<>>
    /\ hist # <<>> =>
          /\ Latest = hist[Len(hist)].id
          /\ \E i \in DOMAIN Checkpoints : Checkpoints[i].id = Latest

\* a second create has moved `latest` on, and a later restore left it there
C7_Witness ==
    /\ Len(hist) = 2
    /\ hist[1].id # hist[2].id
    /\ Latest = hist[2].id
    /\ last.op = "restore"
    /\ last.status = "ok"

\* C8: after a completed create the checkpoint files on disk are exactly the
\* files the manifest's entries name.
C8_FilesMatchManifest ==
    (last.op = "create" /\ last.status = "ok") =>
        DOMAIN files = {Checkpoints[i].file : i \in DOMAIN Checkpoints}

\* the stored snapshot of the checkpoint that restore resolves id to
StoredSnapshot(id) ==
    LET i == CHOOSE i \in DOMAIN Checkpoints :
                 /\ Checkpoints[i].id = id
                 /\ \A j \in 1..(i - 1) : Checkpoints[j].id # id
    IN  load_yaml_file(files[Checkpoints[i].file].state_snapshot)

Live == load_yaml_file(Content(state))

\* every field outside the session section is the snapshot's
OverwrittenWith(live, snap) ==
    /\ DOMAIN live.val = DOMAIN snap.val
    /\ \A k \in DOMAIN snap.val \ {"session"} : live.val[k] = snap.val[k]

\* live is snap with session.last_updated = t and session.notes naming id
RestoredFrom(live, snap, id, t) ==
    /\ OverwrittenWith(live, snap)
    /\ DOMAIN live.val.session.val =
           DOMAIN snap.val.session.val \cup {"last_updated", "notes"}
    /\ \A k \in DOMAIN snap.val.session.val \ {"last_updated", "notes"} :
           live.val.session.val[k] = snap.val.session.val[k]
    /\ live.val.session.val["last_updated"] = t
    /\ live.val.session.val["notes"] = id

\* C2: after a successful restore of checkpoint X the live document equals
\* X's stored snapshot in every field except session.last_updated (the time
\* of the restore) and session.notes (a note naming X).
C2_RestoreEqualsSnapshot ==
    (last.op = "restore" /\ last.status = "ok") =>
        RestoredFrom(Live, StoredSnapshot(last.id), last.id, now)

\* an older checkpoint, whose session had more than the two stamped fields,
\* was restored over a different document
C2_Witness ==
    /\ last.op = "restore"
    /\ last.status = "ok"
    /\ Len(hist) = 2
    /\ last.id = hist[1].id
    /\ last.id # Latest
    /\ "id" \in DOMAIN Live.val.session.val

RestoreErrors ==
    {"No checkpoints found", "No latest checkpoint available",
     "Must specify checkpoint ID or --latest", "Checkpoint not found",
     "Checkpoint file missing", "KeyError"}

\* C4: a restore invoked while no checkpoint was ever created reports an
\* error and leaves the live document, the manifest and the backups as they
\* were.
C4_RestoreWithoutCheckpoints ==
    [][(last' # last /\ last'.op = "restore" /\ hist = <<>>) =>
          /\ last'.status \in RestoreErrors
          /\ state' = state
          /\ manifest' = manifest
          /\ backups' = backups]_vars

\* restore --latest failed on an empty manifest next to a live document
C4_Witness ==
    /\ last.op = "restore"
    /\ last.status = "No latest checkpoint available"
    /\ hist = <<>>
    /\ Exists(state)
    /\ Exists(manifest)

\* C5: a create invoked while there is no state document reports an error
\* and writes nothing: no checkpoint file, no manifest entry, `latest`
\* unchanged, no manifest created.
C5_CreateWithoutState ==
    [][(last' # last /\ last'.op = "create" /\ ~Exists(state)) =>
          /\ last'.status = "State file not found"
          /\ files' = files
          /\ manifest' = manifest
          /\ state' = state]_vars

\* create failed for want of a state document, no manifest being there
C5_Witness ==
    /\ last.op = "create"
    /\ last.status = "State file not found"
    /\ ~Exists(state)
    /\ ~Exists(manifest)
    /\ cpdir

SameContent(d1, d2) ==
    /\ DOMAIN d1.val = DOMAIN d2.val
    /\ \A k \in DOMAIN d1.val :
          IF k \in DictKeys THEN d1.val[k].val = d2.val[k].val
          ELSE d1.val[k] = d2.val[k]

\* C10: documents with the same keys and values get the same fingerprint
\* whatever their field order, and a restore finds the fingerprint that
\* create stored unless the checkpoint file was altered in between.
C10_FingerprintOfContent ==
    /\ \A f \in DOMAIN files :
          (Exists(state) /\ SameContent(Live, load_yaml_file(
                                            files[f].state_snapshot))) =>
              /\ compute_state_hash(Live) =
                     compute_state_hash(load_yaml_file(files[f].state_snapshot))
              /\ f \notin altered => compute_state_hash(Live) = files[f].state_hash
    /\ (last.op = "restore" /\ last.status \in {"ok", "KeyError"}
           /\ last.id \notin altered) => ~last.warned

\* the live document has the content of a stored snapshot in another field
\* order
C10_Witness ==
    /\ Exists(state)
    /\ \E f \in DOMAIN files :
          /\ SameContent(Live, load_yaml_file(files[f].state_snapshot))
          /\ Content(state) # files[f].state_snapshot
          /\ f \notin altered

\* the documents agree in everything but session.last_updated
SameButLastUpdated(d1, d2) ==
    /\ DOMAIN d1.val = DOMAIN d2.val
    /\ \A k \in DOMAIN d1.val \ {"session"} : d1.val[k] = d2.val[k]
    /\ DOMAIN d1.val.session.val = DOMAIN d2.val.session.val
    /\ \A k \in DOMAIN d1.val.session.val \ {"last_updated"} :
          d1.val.session.val[k] = d2.val.session.val[k]

\* id still has a manifest entry, and the file of its first entry exists
StillStored(id) ==
    \E i \in DOMAIN Checkpoints :
        /\ Checkpoints[i].id = id
        /\ \A j \in 1..(i - 1) : Checkpoints[j].id # id
        /\ Checkpoints[i].file \in DOMAIN files

\* C3 as stated: restore(X), create, restore(X): the second restore succeeds
\* and leaves the document the first one left.
C3_RestoreCreateRestore ==
    trail.stage = 3 =>
        /\ trail.ok
        /\ SameButLastUpdated(Live, load_yaml_file(Content(trail.live)))

\* C3 amended: restore(X), create, restore(X): the second restore succeeds
\* exactly when X still has its manifest entry and storage unit after the
\* create, and it then leaves the document the first restore left, but for
\* session.last_updated.
C3_RestoreCreateRestoreIfKept ==
    trail.stage = 3 =>
        /\ trail.ok <=> StillStored(trail.id)
        /\ trail.ok =>
              SameButLastUpdated(Live, load_yaml_file(Content(trail.live)))

\* the second restore of X succeeded at a later time than the first
C3_Witness ==
    /\ trail.stage = 3
    /\ trail.ok
    /\ Len(hist) = 2
    /\ Live.val.session.val["last_updated"] #
           load_yaml_file(Content(trail.live)).val.session.val["last_updated"]

(***************************************************************************)
(* Properties of the validator, under ValidatorSpec                        *)
(***************************************************************************)
\* the validation command has just run on a document it could load
Ran == last.op = "validate" /\ last.status = "ok"

\* ... and no required field was absent, so that every stage ran
RanDeep == Ran /\ last.deep

Range(s) == {s[i] : i \in DOMAIN s}

\* the ids that the tasks of id t list as hard dependencies
HardOf(tasks, t) ==
    UNION {Range(Deps(tasks[i], "hard")) :
              i \in {k \in DOMAIN tasks : TaskId(tasks[k]) = t}}

\* the ids reached from the ids in s along one or more hard dependencies
RECURSIVE Reached(_, _)
Reached(tasks, s) ==
    LET next == s \cup UNION {HardOf(tasks, t) : t \in s}
    IN  IF next = s THEN s ELSE Reached(tasks, next)

\* t lies on a directed cycle of the hard-dependency relation
OnCycle(tasks, t) == t \in Reached(tasks, HardOf(tasks, t))

HasCycle(tasks) == \E t \in AllIds(tasks) : OnCycle(tasks, t)

\* the topological peel: from the ids in s, remove those all of whose hard
\* dependencies have been removed, until none is left to remove
RECURSIVE Peel(_, _)
Peel(tasks, s) ==
    LET free == {t \in s : HardOf(tasks, t) \subseteq AllIds(tasks) \ s}
    IN  IF free = {} THEN s ELSE Peel(tasks, s \ free)

Circular(ids) == Msg("Circular dependency", NoIndex, "", "", ids)

\* C11: when the hard-dependency relation of the task list has a cycle (a
\* task that depends on itself included), the dependency checker reports
\* failure, and the ids it reports are exactly those the topological peel
\* leaves over.
C11_CycleReportsPeelRemainder ==
    (RanDeep /\ HasCycle(TasksOf(last.before))) =>
        /\ ~last.dag.ok
        /\ last.dag.remaining =
               Peel(TasksOf(last.before), AllIds(TasksOf(last.before)))
        /\ Circular(last.dag.remaining) \in Range(last.errors)

\* a two-task cycle was reported, and so was a task depending on itself
C11_Witness ==
    /\ RanDeep
    /\ Len(TasksOf(last.before)) = 2
    /\ OnCycle(TasksOf(last.before), "A")
    /\ "A" \notin HardOf(TasksOf(last.before), "A")
    /\ last.dag.remaining = {"A", "B"}

\* C12: when the hard-dependency relation has no cycle (the empty task list,
\* isolated tasks and hard dependencies naming no task included), the
\* dependency checker reports success and the validator reports no circular
\* dependency.
C12_AcyclicReportsSuccess ==
    (RanDeep /\ ~HasCycle(TasksOf(last.before))) =>
        /\ last.dag.ok
        /\ \A i \in DOMAIN last.errors :
              last.errors[i].kind # "Circular dependency"

\* every hard dependency of every task names a task of the document
NoDanglingHard(tasks) ==
    \A t \in AllIds(tasks) : HardOf(tasks, t) \subseteq AllIds(tasks)

\* C13: whenever the dependency checker reports failure, every id it
\* reports lies on a directed cycle of the hard-dependency relation: a task
\* that only depends on a member of a cycle is not reported.  (Stated for
\* the documents whose hard dependencies all name tasks, which leaves out
\* the reports that C12 is about.)
C13_ReportedAreOnCycle ==
    (RanDeep /\ ~last.dag.ok /\ NoDanglingHard(TasksOf(last.before))) =>
        \A t \in last.dag.remaining : OnCycle(TasksOf(last.before), t)

\* C14: validation without the auto-repair flag is pure: a run of all the
\* stages leaves the stored state document and the document in memory
\* exactly as they were.
C14_ValidationIsPure ==
    [][(now' = now /\ last'.op = "validate" /\ last'.status = "ok"
           /\ ~last'.fix) =>
          /\ state' = state
          /\ last'.doc = load_yaml_file(Content(state))]_vars

\* a run without --fix reported a missing timestamp and left it missing
C14_Witness ==
    /\ Ran
    /\ ~last.fix
    /\ \E i \in DOMAIN last.warnings :
          last.warnings[i].kind = "missing timestamp"
    /\ auto_repair(last.doc, now).repairs # <<>>
    /\ state = File(save_yaml_file(last.before))

\* the ids of the tasks that have one
TaskIdsOf(tasks) == {tasks[i].id : i \in {k \in DOMAIN tasks :
                                              Truthy(tasks[k], "id")}}

\* how many entries of kind k the list holds
Count(msgs, k) == Len(SelectSeq(msgs, LAMBDA m : m.kind = k))

\* how many ids not in task_ids the tasks list as dependencies of this kind
DanglingCount(tasks, kind, task_ids) ==
    Len(SelectSeq(Flatten([i \in DOMAIN tasks |-> Deps(tasks[i], kind)]),
                  LAMBDA dep : dep \notin task_ids))

\* C15: for every task and every id among its dependencies that is the id
\* of no task in the document: listed as a hard dependency it gives an
\* error entry, listed as a soft dependency it gives a warning entry and
\* never an error.
C15_DanglingHardErrorSoftWarning ==
    RanDeep =>
        LET tasks == TasksOf(last.before)
            ids   == TaskIdsOf(tasks)
        IN  /\ \A i \in DOMAIN tasks :
                  /\ \A dep \in Range(Deps(tasks[i], "hard")) \ ids :
                        Msg("hard", NoIndex, TaskId(tasks[i]), dep, {})
                            \in Range(last.errors)
                  /\ \A dep \in Range(Deps(tasks[i], "soft")) \ ids :
                        Msg("soft", NoIndex, TaskId(tasks[i]), dep, {})
                            \in Range(last.warnings)
            /\ Count(last.errors, "hard") = DanglingCount(tasks, "hard", ids)
            /\ Count(last.warnings, "soft") = DanglingCount(tasks, "soft", ids)
            /\ Count(last.errors, "soft") = 0
            /\ Count(last.warnings, "hard") = 0

\* one task lists an id of no task as a soft dependency only, another lists
\* one as a hard dependency
C15_Witness ==
    /\ RanDeep
    /\ Len(TasksOf(last.before)) = 2
    /\ Count(last.warnings, "soft") = 1
    /\ Count(last.errors, "hard") = 1
    /\ Deps(TasksOf(last.before)[1], "hard") = <<>>
    /\ Deps(TasksOf(last.before)[2], "soft") = <<>>

\* C16: the task stage reports every defect: each task without id, each
\* task without name, each task with an invalid status, each task whose id
\* an earlier task has, and each hard dependency naming no task has an
\* error entry of its own, whatever else is wrong with that task or another.
C16_EveryDefectReported ==
    RanDeep =>
        LET tasks == TasksOf(last.before)
            Defective(P(_)) == Cardinality({i \in DOMAIN tasks : P(tasks[i])})
        IN  /\ Count(last.errors, "Task missing 'id'") =
                   Defective(LAMBDA t : ~Truthy(t, "id"))
            /\ Count(last.errors, "Task missing 'name'") =
                   Defective(LAMBDA t : ~Truthy(t, "name"))
            /\ Count(last.errors, "invalid status") =
                   Defective(LAMBDA t : TaskStatus(t) \notin ValidStatuses)
            /\ Count(last.errors, "Duplicate task ID") =
                   Cardinality({i \in DOMAIN tasks :
                       /\ Truthy(tasks[i], "id")
                       /\ \E j \in 1..(i - 1) :
                             /\ Truthy(tasks[j], "id")
                             /\ tasks[j].id = tasks[i].id})
            /\ Count(last.errors, "hard") =
                   DanglingCount(tasks, "hard", TaskIdsOf(tasks))

\* the run called auto_repair
Repaired == Ran /\ last.fix /\ (last.errors # <<>> \/ last.warnings # <<>>)

\* C17: auto-repair applied to the document that auto-repair returned gives
\* an empty change list and leaves that document as it is.
C17_RepairTwiceChangesNothing ==
    Repaired =>
        /\ auto_repair(last.doc, now).repairs = <<>>
        /\ auto_repair(last.doc, now).state = last.doc

\* C18: the errors and the warnings that validation gives for the repaired
\* document are among those it gave for the document before the repair.
C18_RepairAddsNoFinding ==
    Repaired =>
        /\ Range(ValidateAll(last.doc).errors) \subseteq Range(last.errors)
        /\ Range(ValidateAll(last.doc).warnings) \subseteq
               Range(last.warnings)

\* a repair removed a warning, and an error that it cannot remove is left
C18_Witness ==
    /\ Repaired
    /\ last.doc # last.before
    /\ Range(ValidateAll(last.doc).warnings) # Range(last.warnings)
    /\ ValidateAll(last.doc).errors # <<>>
    /\ state = File(save_yaml_file(last.doc))

\* the timestamp that the status of the task implies, when it has none
Due(task) ==
    {m[2] : m \in {Milestones[i] : i \in DOMAIN Milestones} \cap
                  {<<TaskStatus(task), k>> : k \in {"completed_at",
                      "verified_at", "started_at"} \ DOMAIN task}}

\* after is before, but for the timestamps that were due and for
\* session.last_updated
OnlyRepaired(before, after) ==
    /\ before.ord = after.ord
    /\ \A k \in DOMAIN before.val \ {"tasks", "session"} :
          after.val[k] = before.val[k]
    /\ Has(before, "tasks") =>
          /\ Len(after.val.tasks) = Len(before.val.tasks)
          /\ \A i \in DOMAIN before.val.tasks :
                LET b == before.val.tasks[i]
                    a == after.val.tasks[i]
                IN  /\ DOMAIN a = DOMAIN b \cup Due(b)
                    /\ \A k \in DOMAIN b : a[k] = b[k]
    /\ Has(before, "session") =>
          /\ DOMAIN after.val.session.val =
                 DOMAIN before.val.session.val \cup {"last_updated"}
          /\ \A k \in DOMAIN before.val.session.val \ {"last_updated"} :
                after.val.session.val[k] = before.val.session.val[k]

\* the errors that a repair is not to resolve
Judgmental == {"hard", "Duplicate task ID", "Circular dependency"}

\* C19: auto-repair changes nothing but a missing started_at, completed_at
\* or verified_at of a task whose status is in_progress, completed or
\* verified, and session.last_updated; ids, names, statuses, dependencies,
\* timestamps already there, project and phase stay, and so does every
\* error about a dependency naming no task, a duplicate id or a cycle.
C19_RepairOnlyStamps ==
    Repaired =>
        /\ OnlyRepaired(last.before, last.doc)
        /\ \A i \in DOMAIN last.errors :
              last.errors[i].kind \in Judgmental =>
                  last.errors[i] \in Range(ValidateAll(last.doc).errors)
        /\ state = IF last.repairs # <<>> THEN File(save_yaml_file(last.doc))
                   ELSE File(save_yaml_file(last.before))

\* a repair set the timestamp that was due in a task that had another one,
\* and left the errors it is not to resolve
C19_Witness ==
    /\ Repaired
    /\ now > Earlier
    /\ \E i \in DOMAIN last.errors : last.errors[i].kind \in Judgmental
    /\ \E i \in DOMAIN TasksOf(last.before) :
          LET b == TasksOf(last.before)[i]
          IN  /\ Truthy(b, "completed_at")
              /\ Due(b) = {"started_at"}
              /\ TasksOf(last.doc)[i].started_at = isoformat(now)

\* the document of the scenario: complete, its task list the one task A,
\* completed, without completed_at
ScenarioDoc ==
    DictSet(Frames[1], "tasks", <<MakeTask("A", <<>>, Profiles[1])>>)

\* C20: for the document whose task list is the single task A, completed,
\* without completed_at, validation gives exactly one warning and no error,
\* and auto-repair sets A's completed_at to the current time and returns a
\* change list of exactly one entry.
C20_ScenarioOneRepair ==
    [][(now' = now /\ last'.op = "validate" /\ last'.status = "ok"
           /\ last'.fix /\ last'.before = ScenarioDoc) =>
          /\ Len(last'.warnings) = 1
          /\ last'.errors = <<>>
          /\ last'.doc.val.tasks[1].completed_at = isoformat(now)
          /\ Len(last'.repairs) = 1]_vars

(***************************************************************************)
(* Properties of the checkpoint manager, continued                         *)
(***************************************************************************)
\* C22: the checkpoint record that create writes to its storage unit carries
\* `parent` equal to the manifest's `latest` as it was immediately before
\* this create, and no parent when `latest` was none.
C22_StoredRecordCarriesParent ==
    (last.op = "create" /\ last.status = "ok" /\ last.id \in DOMAIN files) =>
        IF last.parent = NoId
        THEN "parent" \notin DOMAIN files[last.id]
        ELSE /\ "parent" \in DOMAIN files[last.id]
             /\ files[last.id].parent = last.parent

\* the step is a restore that went as far as overwriting the live document
Overwrote == last'.op = "restore" /\ last'.status \in {"ok", "KeyError"}

\* C23: every restore that finds a live state document and goes on to
\* overwrite it has copied the document, as it was before the restore, to
\* the backup file of the current second, and the copy is there with that
\* content when the restore returns.
C23_BackupBeforeOverwrite ==
    [][(Overwrote /\ Exists(state)) =>
           /\ strftime(now) \in DOMAIN backups'
           /\ backups'[strftime(now)] = Content(state)]_vars

\* a restore returned over a live document and the backup of this second
\* holds another document than the restored one
C23_Witness ==
    /\ last.op = "restore"
    /\ last.status = "ok"
    /\ strftime(now) \in DOMAIN backups
    /\ backups[strftime(now)] # Content(state)

\* the errors restore raises before it looks at the live document
Unresolved == RestoreErrors \ {"KeyError"}

\* C24: a restore that has resolved its checkpoint and cannot write the
\* pre-restore backup goes on all the same: the live state document is
\* overwritten with the checkpoint's snapshot and the restore returns as it
\* does when the backup is written.
C24_BackupFailureDoesNotBlock ==
    [][(/\ last'.op = "restore"
        /\ last' # last
        /\ Exists(state)
        /\ ~bkdir
        /\ last'.status \notin Unresolved) =>
           /\ last'.status \in {"ok", "KeyError"}
           /\ OverwrittenWith(load_yaml_file(Content(state')),
                              StoredSnapshot(last'.id))]_vars

(***************************************************************************)
(* Properties of the validator, continued                                  *)
(***************************************************************************)
\* the required top-level sections the document lacks, in the order checked
Absent(st) == SelectSeq(RequiredFields, LAMBDA f : ~Has(st, f))

\* C25: when a required top-level section (project, phase, tasks, session)
\* is absent, validation reports one error per absent section and nothing
\* else: no other error and no warning.
C25_AbsentSectionSkipsTheRest ==
    (Ran /\ Absent(last.before) # <<>>) =>
        /\ last.errors =
               [i \in 1..Len(Absent(last.before)) |->
                   Msg("Missing required field", NoIndex, "",
                       Absent(last.before)[i], {})]
        /\ last.warnings = <<>>

\* a document without session section, holding a task without name, was
\* validated and got the one error
C25_Witness ==
    /\ Ran
    /\ Absent(last.before) = <<"session">>
    /\ \E i \in DOMAIN TasksOf(last.before) :
          ~Truthy(TasksOf(last.before)[i], "name")
    /\ Len(last.errors) = 1

(***************************************************************************)
(* Properties of the checkpoint manager, continued                         *)
(***************************************************************************)
\* C26: create does not judge the content of the state document: whenever
\* the document exists (and the checkpoints directory with it) create
\* succeeds and stores a checkpoint whose snapshot is the document, valid or
\* not.
C26_CreateTakesAnyDocument ==
    [][(last' # last /\ last'.op = "create" /\ Exists(state) /\ cpdir) =>
          /\ last'.status = "ok"
          /\ last'.id \in DOMAIN files' =>
                files'[last'.id].state_snapshot = Content(state)]_vars

\* C28: a restore that ends in an error (unknown id, no id resolved, missing
\* checkpoint file, a snapshot without session section) leaves the live
\* state document exactly as it was before the restore.
C28_FailedRestoreLeavesState ==
    [][(last'.op = "restore" /\ last'.status \in RestoreErrors) =>
          state' = state]_vars

\* C29: restore leaves the manifest (checkpoint list, `latest`, retention)
\* and every checkpoint file as they are, so the parent of the checkpoint a
\* create returns is the checkpoint created last before it, whatever was
\* restored in between, and none for the first one.
C29_RestoreLeavesChain ==
    [][/\ last'.op = "restore" => (manifest' = manifest /\ files' = files)
       /\ (hist' # hist /\ last'.op = "create") =>
             last'.parent = IF hist = <<>> THEN NoId
                            ELSE hist[Len(hist)].id]_vars

\* the first of two checkpoints with different ids was restored, and the
\* create after it returned the second as the parent of the third
C29_Witness ==
    /\ last.op = "create"
    /\ last.status = "ok"
    /\ Len(hist) = 3
    /\ hist[1].id # hist[2].id
    /\ Has(Live, "session")
    /\ Live.val.session.val["notes"] = hist[1].id
    /\ last.parent = hist[2].id

(***************************************************************************)
(* Properties of concurrent creates                                        *)
(***************************************************************************)
\* both invocations have returned
BothDone == \A p \in Procs : procs[p].pc = "done"

\* the invocation that saved the manifest last
LastSaver == CHOOSE p \in Procs : procs[p].saved = Cardinality(Procs)

\* C27: two concurrent creates can both return successfully and leave a
\* manifest with the entry of one of them only.  When both have returned,
\* both checkpoint files are there, and the manifest holds both entries if
\* the invocation that saved last had loaded the manifest after the other
\* one's save, and the entry of the one that saved last alone if it had
\* loaded it before.
C27_LostUpdateWhenOverlapping ==
    BothDone =>
        /\ DOMAIN files = {procs[p].id : p \in Procs}
        /\ IF procs[LastSaver].seen = 0
           THEN Content(manifest).checkpoints = <<hist[Len(hist)]>>
           ELSE Content(manifest).checkpoints = hist

\* both invocations returned, the manifest has the entry of the second
\* checkpoint only, and the first checkpoint's file is there without entry
C27_Witness ==
    /\ BothDone
    /\ last.status = "ok"
    /\ hist[1].id # hist[2].id
    /\ Len(Content(manifest).checkpoints) = 1
    /\ Content(manifest).checkpoints[1].id = hist[2].id
    /\ hist[1].id \in DOMAIN files

(***************************************************************************)
(* Properties of the two commands                                          *)
(***************************************************************************)
\* how create and restore fail: no state document, no manifest, no id
\* resolved, an id the manifest does not have, a checkpoint file that is gone
Failures ==
    {"State file not found", "No checkpoints found",
     "No latest checkpoint available",
     "Must specify checkpoint ID or --latest", "Checkpoint not found",
     "Checkpoint file missing"}

\* C21: the validation command exits with non-zero status exactly when its
\* error list is non-empty (warnings alone give 0, also when auto-repair
\* ran), and the checkpoint command exits with non-zero status whenever
\* create or restore fails.
C21_ExitStatus ==
    /\ Ran => (last.code # 0 <=> last.errors # <<>>)
    /\ (last.op \in {"create", "restore"} /\ last.status \in Failures) =>
           ExitStatus(last) # 0

\* a checkpoint had been created, and validation with --fix found a warning
\* and no error, repaired the document and exited with status 0
C21_Witness ==
    /\ Ran
    /\ last.fix
    /\ last.errors = <<>>
    /\ last.warnings # <<>>
    /\ last.repairs # <<>>
    /\ last.code = 0
    /\ hist # <<>>

====
